---- MODULE Spec2Model ----
(***************************************************************************)
(* Model of bank_account.py: Transaction, BankAccount, SavingsAccount and  *)
(* CheckingAccount.                                                        *)
(*                                                                         *)
(* Money is counted in whole dollars (integers).  An interest rate r is    *)
(* held as the integer r * RateDen, so 0.02 is 2 and 1.0 is 100.           *)
(* An account object is a record that carries exactly the attributes its   *)
(* class sets; cls is the object's class and initial_balance remembers     *)
(* the constructor argument.  The timestamp of a Transaction is the wall   *)
(* clock and is not read by any operation; it is left out.                 *)
(* call and ret are the last call made and what it returned or raised;     *)
(* threads holds the constructor calls in flight when constructions run    *)
(* concurrently, and is idle otherwise.                                    *)
(***************************************************************************)
EXTENDS Integers, Sequences, FiniteSets, TLC

\* ---- bounds of the exploration ----
MaxAccounts == 3
MaxHistory == 5
MaxBalance == 300
DemoMaxBalance == 2000
DemoHistory == 5

\* ---- program constants ----
RateDen == 100
InitialCounter == 1000
MinimumBalance == 100
OverdraftFee == 35
DefaultInterestRate == 2
DefaultOverdraftLimit == 500

\* ---- inputs ----
Classes == {"BankAccount", "SavingsAccount", "CheckingAccount"}
Owners == {"Alice"}
InitialBalances == {-100, 0, 100}
Amounts == {-50, 0, 50, 100}
Rates == {-50, 0, 50, 100, 150}
Limits == {-50, 0, 100, DefaultOverdraftLimit}

VARIABLES account_counter, accounts, call, ret, threads

vars == <<account_counter, accounts, call, ret, threads>>

\* ---- Transaction ----
Transaction(trans_type, amount, balance_after, description) ==
  [trans_type |-> trans_type, amount |-> amount,
   balance_after |-> balance_after, description |-> description]

\* ---- BankAccount ----
add_transaction(self, trans_type, amount, description) ==
  [self EXCEPT !.transaction_history =
     Append(@, Transaction(trans_type, amount, self.balance, description))]

\* The attributes BankAccount.__init__ sets, for an accepted initial balance.
\* mutant: a zero initial balance is recorded as a deposit too
BankAccount_init_RecordsZero(cls, number, owner, initial_balance) ==
  LET self == [cls |-> cls, account_number |-> number, owner |-> owner,
               balance |-> initial_balance, transaction_history |-> <<>>,
               is_active |-> TRUE, initial_balance |-> initial_balance]
  IN IF initial_balance >= 0
       THEN add_transaction(self, "Deposit", initial_balance, <<"Initial deposit">>)
       ELSE self

BankAccount_init(cls, number, owner, initial_balance) ==
  LET self == [cls |-> cls, account_number |-> number, owner |-> owner,
               balance |-> initial_balance, transaction_history |-> <<>>,
               is_active |-> TRUE, initial_balance |-> initial_balance]
  IN IF initial_balance > 0
       THEN add_transaction(self, "Deposit", initial_balance, <<"Initial deposit">>)
       ELSE self

\* mutant: the closed account still accepts deposits
BankAccount_deposit_NoActiveCheck(self, amount) ==
  IF amount <= 0 THEN [self |-> self, ret |-> "False"]
  ELSE LET s1 == [self EXCEPT !.balance = @ + amount]
       IN [self |-> add_transaction(s1, "Deposit", amount, <<>>), ret |-> "True"]

\* mutant: the transaction is recorded before the balance is updated
BankAccount_deposit_StaleStamp(self, amount) ==
  IF ~self.is_active THEN [self |-> self, ret |-> "False"]
  ELSE IF amount <= 0 THEN [self |-> self, ret |-> "False"]
  ELSE LET s1 == add_transaction(self, "Deposit", amount, <<>>)
       IN [self |-> [s1 EXCEPT !.balance = @ + amount], ret |-> "True"]

BankAccount_deposit(self, amount) ==
  IF ~self.is_active THEN [self |-> self, ret |-> "False"]
  ELSE IF amount <= 0 THEN [self |-> self, ret |-> "False"]
  ELSE LET s1 == [self EXCEPT !.balance = @ + amount]
       IN [self |-> add_transaction(s1, "Deposit", amount, <<>>), ret |-> "True"]

\* mutant: the whole balance cannot be withdrawn
BankAccount_withdraw_Strict(self, amount) ==
  IF ~self.is_active THEN [self |-> self, ret |-> "False"]
  ELSE IF amount <= 0 THEN [self |-> self, ret |-> "False"]
  ELSE IF amount >= self.balance THEN [self |-> self, ret |-> "False"]
  ELSE LET s1 == [self EXCEPT !.balance = @ - amount]
       IN [self |-> add_transaction(s1, "Withdrawal", amount, <<>>), ret |-> "True"]

\* mutant: no check of the funds
BankAccount_withdraw_NoFundsCheck(self, amount) ==
  IF ~self.is_active THEN [self |-> self, ret |-> "False"]
  ELSE IF amount <= 0 THEN [self |-> self, ret |-> "False"]
  ELSE LET s1 == [self EXCEPT !.balance = @ - amount]
       IN [self |-> add_transaction(s1, "Withdrawal", amount, <<>>), ret |-> "True"]

BankAccount_withdraw(self, amount) ==
  IF ~self.is_active THEN [self |-> self, ret |-> "False"]
  ELSE IF amount <= 0 THEN [self |-> self, ret |-> "False"]
  ELSE IF amount > self.balance THEN [self |-> self, ret |-> "False"]
  ELSE LET s1 == [self EXCEPT !.balance = @ - amount]
       IN [self |-> add_transaction(s1, "Withdrawal", amount, <<>>), ret |-> "True"]

close_account(self) == [self EXCEPT !.is_active = FALSE]

\* ---- SavingsAccount ----
SavingsAccount_init(number, owner, initial_balance, interest_rate) ==
  BankAccount_init("SavingsAccount", number, owner, initial_balance)
    @@ [interest_rate |-> interest_rate, minimum_balance |-> MinimumBalance]

\* balance * interest_rate, the rate being interest_rate / RateDen
Interest(self) == (self.balance * self.interest_rate) \div RateDen

\* the product is a whole number of dollars
InterestExact(self) == (self.balance * self.interest_rate) % RateDen = 0

\* mutant: a zero interest is applied and recorded too
apply_interest_ZeroApplied(self) ==
  IF ~self.is_active THEN [self |-> self, ret |-> "False"]
  ELSE IF Interest(self) >= 0
    THEN LET s1 == [self EXCEPT !.balance = @ + Interest(self)]
         IN [self |-> add_transaction(s1, "Interest", Interest(self),
                                      <<"Interest at % rate", self.interest_rate>>),
             ret |-> "True"]
    ELSE [self |-> self, ret |-> "False"]

apply_interest(self) ==
  IF ~self.is_active THEN [self |-> self, ret |-> "False"]
  ELSE IF Interest(self) > 0
    THEN LET s1 == [self EXCEPT !.balance = @ + Interest(self)]
         IN [self |-> add_transaction(s1, "Interest", Interest(self),
                                      <<"Interest at % rate", self.interest_rate>>),
             ret |-> "True"]
    ELSE [self |-> self, ret |-> "False"]

\* mutant: withdraw is not overridden
SavingsAccount_withdraw_NoMinimum(self, amount) == BankAccount_withdraw(self, amount)

\* mutant: the minimum balance itself may not be reached
SavingsAccount_withdraw_Strict(self, amount) ==
  IF ~self.is_active THEN [self |-> self, ret |-> "False"]
  ELSE IF amount <= 0 THEN [self |-> self, ret |-> "False"]
  ELSE IF self.balance - amount <= self.minimum_balance
    THEN [self |-> self, ret |-> "False"]
  ELSE BankAccount_withdraw(self, amount)

SavingsAccount_withdraw(self, amount) ==
  IF ~self.is_active THEN [self |-> self, ret |-> "False"]
  ELSE IF amount <= 0 THEN [self |-> self, ret |-> "False"]
  ELSE IF self.balance - amount < self.minimum_balance
    THEN [self |-> self, ret |-> "False"]
  ELSE BankAccount_withdraw(self, amount)

set_interest_rate(self, new_rate) ==
  IF 0 <= new_rate /\ new_rate <= RateDen
    THEN [self EXCEPT !.interest_rate = new_rate]
    ELSE self

\* ---- CheckingAccount ----
CheckingAccount_init(number, owner, initial_balance, overdraft_limit) ==
  BankAccount_init("CheckingAccount", number, owner, initial_balance)
    @@ [overdraft_limit |-> overdraft_limit, overdraft_fee |-> OverdraftFee,
        is_overdrawn |-> FALSE]

\* mutant: the fee is recorded before it is deducted
ChargeFee_StaleStamp(s) ==
  IF s.balance < 0 /\ ~s.is_overdrawn
    THEN LET s1 == add_transaction([s EXCEPT !.is_overdrawn = TRUE],
                                   "Overdraft Fee", s.overdraft_fee,
                                   <<"Overdraft fee charged">>)
         IN [s1 EXCEPT !.balance = @ - s.overdraft_fee]
    ELSE s

\* mutant: the fee is deducted but not recorded
ChargeFee_Unrecorded(s) ==
  IF s.balance < 0 /\ ~s.is_overdrawn
    THEN [s EXCEPT !.is_overdrawn = TRUE, !.balance = @ - s.overdraft_fee]
    ELSE s

\* mutant: the fee is charged on every withdrawal that leaves a negative balance
ChargeFee_Every(s) ==
  IF s.balance < 0
    THEN add_transaction([s EXCEPT !.is_overdrawn = TRUE,
                                   !.balance = @ - s.overdraft_fee],
                         "Overdraft Fee", s.overdraft_fee,
                         <<"Overdraft fee charged">>)
    ELSE s

\* lines 233-245: the fee is charged when the withdrawal left the balance
\* below zero and the account was not already marked overdrawn
ChargeFee(s) ==
  IF s.balance < 0 /\ ~s.is_overdrawn
    THEN add_transaction([s EXCEPT !.is_overdrawn = TRUE,
                                   !.balance = @ - s.overdraft_fee],
                         "Overdraft Fee", s.overdraft_fee,
                         <<"Overdraft fee charged">>)
    ELSE s

\* lines 247-249
ResetOverdrawn(s) ==
  IF s.balance >= 0 THEN [s EXCEPT !.is_overdrawn = FALSE] ELSE s

\* mutant: the funds available count the fee as well
CheckingAccount_withdraw_FeeRoom(self, amount) ==
  IF ~self.is_active THEN [self |-> self, ret |-> "False"]
  ELSE IF amount <= 0 THEN [self |-> self, ret |-> "False"]
  ELSE IF amount > self.balance + self.overdraft_limit + self.overdraft_fee
    THEN [self |-> self, ret |-> "False"]
  ELSE LET s1 == [self EXCEPT !.balance = @ - amount]
           s2 == add_transaction(s1, "Withdrawal", amount, <<>>)
       IN [self |-> ResetOverdrawn(ChargeFee(s2)), ret |-> "True"]

\* mutant: the overdraft limit itself may not be reached
CheckingAccount_withdraw_Strict(self, amount) ==
  IF ~self.is_active THEN [self |-> self, ret |-> "False"]
  ELSE IF amount <= 0 THEN [self |-> self, ret |-> "False"]
  ELSE IF amount >= self.balance + self.overdraft_limit
    THEN [self |-> self, ret |-> "False"]
  ELSE LET s1 == [self EXCEPT !.balance = @ - amount]
           s2 == add_transaction(s1, "Withdrawal", amount, <<>>)
       IN [self |-> ResetOverdrawn(ChargeFee(s2)), ret |-> "True"]

CheckingAccount_withdraw(self, amount) ==
  IF ~self.is_active THEN [self |-> self, ret |-> "False"]
  ELSE IF amount <= 0 THEN [self |-> self, ret |-> "False"]
  ELSE IF amount > self.balance + self.overdraft_limit
    THEN [self |-> self, ret |-> "False"]
  ELSE LET s1 == [self EXCEPT !.balance = @ - amount]
           s2 == add_transaction(s1, "Withdrawal", amount, <<>>)
       IN [self |-> ResetOverdrawn(ChargeFee(s2)), ret |-> "True"]

\* mutant: deposit is not overridden
CheckingAccount_deposit_NoReset(self, amount) == BankAccount_deposit(self, amount)

CheckingAccount_deposit(self, amount) ==
  LET result == BankAccount_deposit(self, amount)
  IN IF result.ret = "True" /\ result.self.balance >= 0
       THEN [self |-> [result.self EXCEPT !.is_overdrawn = FALSE], ret |-> result.ret]
       ELSE result

\* ---- method resolution by class ----
deposit(self, amount) ==
  IF self.cls = "CheckingAccount" THEN CheckingAccount_deposit(self, amount)
  ELSE BankAccount_deposit(self, amount)

withdraw(self, amount) ==
  IF self.cls = "SavingsAccount" THEN SavingsAccount_withdraw(self, amount)
  ELSE IF self.cls = "CheckingAccount" THEN CheckingAccount_withdraw(self, amount)
  ELSE BankAccount_withdraw(self, amount)

\* ---- the state machine ----
NoCall == [op |-> "none", acct |-> 0, arg |-> 0]

\* the two constructor calls of the concurrent scenario
Threads == {1, 2}

Idle == [pc |-> "idle"]

Init ==
  /\ account_counter = InitialCounter
  /\ accounts = <<>>
  /\ call = NoCall
  /\ ret = "None"
  /\ threads = [t \in Threads |-> Idle]

Slots == 1..Len(accounts)

Within(self, maxBalance, maxHistory) ==
  /\ self.balance <= maxBalance
  /\ Len(self.transaction_history) <= maxHistory

WithinBounds(self) == Within(self, MaxBalance, MaxHistory)

\* a constructor call; cls(owner, initial_balance, extra) where extra is the
\* interest rate or the overdraft limit of the variant
NewAccount(cls, owner, initial_balance, extra) ==
  IF cls = "SavingsAccount"
    THEN SavingsAccount_init(account_counter, owner, initial_balance, extra)
  ELSE IF cls = "CheckingAccount"
    THEN CheckingAccount_init(account_counter, owner, initial_balance, extra)
  ELSE BankAccount_init(cls, account_counter, owner, initial_balance)

Extras(cls) ==
  IF cls = "SavingsAccount" THEN Rates
  ELSE IF cls = "CheckingAccount" THEN Limits
  ELSE {0}

\* mutant: the counter is read but not advanced
ConstructWith_NoIncrement(cls, owner, initial_balance, extra) ==
  /\ initial_balance >= 0
  /\ accounts' = Append(accounts, NewAccount(cls, owner, initial_balance, extra))
  /\ account_counter' = account_counter
  /\ call' = [op |-> "construct", acct |-> Len(accounts) + 1, arg |-> initial_balance]
  /\ ret' = "None"
  /\ UNCHANGED threads

ConstructWith(cls, owner, initial_balance, extra) ==
  /\ initial_balance >= 0
  /\ accounts' = Append(accounts, NewAccount(cls, owner, initial_balance, extra))
  /\ account_counter' = account_counter + 1
  /\ call' = [op |-> "construct", acct |-> Len(accounts) + 1, arg |-> initial_balance]
  /\ ret' = "None"
  /\ UNCHANGED threads

\* the construction of the account whose life Spec follows
Construct ==
  \E cls \in Classes, owner \in Owners, initial_balance \in InitialBalances :
    \E extra \in Extras(cls) :
      /\ accounts = <<>>
      /\ ConstructWith(cls, owner, initial_balance, extra)

\* line 46-47: the constructor raises before it reads the counter
ConstructRejected ==
  \E initial_balance \in InitialBalances :
    /\ initial_balance < 0
    /\ call' = [op |-> "construct", acct |-> 0, arg |-> initial_balance]
    /\ ret' = "ValueError"
    /\ UNCHANGED <<account_counter, accounts, threads>>

\* a method call on account a: the object and the result after it
MethodCall(a, op, arg, result) ==
  /\ accounts' = [accounts EXCEPT ![a] = result.self]
  /\ call' = [op |-> op, acct |-> a, arg |-> arg]
  /\ ret' = result.ret
  /\ UNCHANGED <<account_counter, threads>>

Apply(a, op, arg, result) ==
  /\ WithinBounds(result.self)
  /\ MethodCall(a, op, arg, result)

Deposit ==
  \E a \in Slots, amount \in Amounts :
    Apply(a, "deposit", amount, deposit(accounts[a], amount))

Withdraw ==
  \E a \in Slots, amount \in Amounts :
    Apply(a, "withdraw", amount, withdraw(accounts[a], amount))

\* apply_interest exists on this object
HasApplyInterest(self) == self.cls = "SavingsAccount"

\* mutant: the base class defines apply_interest as a no-op that returns False
missing_apply_interest_NoOp(self) == [self |-> self, ret |-> "False"]

\* BankAccount and CheckingAccount define no apply_interest: the attribute
\* lookup raises and nothing is changed
missing_apply_interest(self) == [self |-> self, ret |-> "AttributeError"]

ApplyInterest ==
  \E a \in Slots :
    /\ HasApplyInterest(accounts[a])
    /\ InterestExact(accounts[a])
    /\ Apply(a, "apply_interest", 0, apply_interest(accounts[a]))

ApplyInterestMissing ==
  \E a \in Slots :
    /\ ~HasApplyInterest(accounts[a])
    /\ Apply(a, "apply_interest", 0, missing_apply_interest(accounts[a]))

SetInterestRate ==
  \E a \in Slots, new_rate \in Rates :
    /\ accounts[a].cls = "SavingsAccount"
    /\ Apply(a, "set_interest_rate", new_rate,
             [self |-> set_interest_rate(accounts[a], new_rate), ret |-> "None"])

CloseAccount ==
  \E a \in Slots :
    Apply(a, "close_account", 0, [self |-> close_account(accounts[a]), ret |-> "None"])

Next ==
  \/ Construct
  \/ ConstructRejected
  \/ Deposit
  \/ Withdraw
  \/ ApplyInterest
  \/ ApplyInterestMissing
  \/ SetInterestRate
  \/ CloseAccount

Spec == Init /\ [][Next]_vars

\* ---- several accounts: the shared counter ----
\* the default of the variant's extra constructor argument
DefaultExtra(cls) ==
  IF cls = "SavingsAccount" THEN DefaultInterestRate
  ELSE IF cls = "CheckingAccount" THEN DefaultOverdraftLimit
  ELSE 0

ConstructNext ==
  \E cls \in Classes, owner \in Owners, initial_balance \in InitialBalances :
    /\ Len(accounts) < MaxAccounts
    /\ ConstructWith(cls, owner, initial_balance, DefaultExtra(cls))

NextBank ==
  \/ ConstructNext
  \/ ConstructRejected
  \/ CloseAccount

SpecBank == Init /\ [][NextBank]_vars

\* ---- reading a history ----
SignedAmount(t) ==
  IF t.trans_type \in {"Deposit", "Interest"} THEN t.amount ELSE 0 - t.amount

RECURSIVE SignedSum(_)
SignedSum(h) ==
  IF h = <<>> THEN 0 ELSE SignedAmount(Head(h)) + SignedSum(Tail(h))

\* the history without the Deposit the constructor records for a positive
\* initial balance
AfterInitialDeposit(self) ==
  IF self.initial_balance > 0
    THEN Tail(self.transaction_history)
    ELSE self.transaction_history

History(a) == accounts[a].transaction_history

IsClass(a, cls) == a \in Slots /\ accounts[a].cls = cls

\* the step just taken was the call op on account a
Called(a, op) == call'.op = op /\ call'.acct = a /\ a \in Slots

\* (C1) As stated: in every state the balance of every account equals the
\* constructor's initial balance plus the signed sum of all recorded
\* transactions (Deposit and Interest add, Withdrawal and Overdraft Fee
\* subtract).
C1_BalanceIsInitialPlusAllTransactions ==
  \A a \in Slots :
    accounts[a].balance = accounts[a].initial_balance + SignedSum(History(a))

\* (C1) Amended: the balance equals the signed sum of all recorded
\* transactions, the positive initial balance being itself the first recorded
\* Deposit; so it equals the initial balance plus the signed sum of the
\* transactions recorded after that initial Deposit.
C1_BalanceIsSumOfHistory ==
  \A a \in Slots :
    /\ accounts[a].balance = SignedSum(History(a))
    /\ accounts[a].balance =
         accounts[a].initial_balance + SignedSum(AfterInitialDeposit(accounts[a]))
    /\ accounts[a].initial_balance > 0 =>
         /\ History(a) # <<>>
         /\ Head(History(a)) = Transaction("Deposit", accounts[a].initial_balance,
                                           accounts[a].initial_balance,
                                           <<"Initial deposit">>)

C1_Witness ==
  \E a \in Slots :
    /\ accounts[a].initial_balance > 0
    /\ \E i, j, k \in DOMAIN History(a) :
         /\ i > 1 /\ History(a)[i].trans_type = "Deposit"
         /\ History(a)[j].trans_type = "Withdrawal"
         /\ History(a)[k].trans_type \in {"Interest", "Overdraft Fee"}

\* ---- overdraft fee ----
FeeCount(h) == Cardinality({i \in DOMAIN h : h[i].trans_type = "Overdraft Fee"})

\* the balance before the i-th recorded transaction
BalanceBefore(h, i) == IF i = 1 THEN 0 ELSE h[i - 1].balance_after

\* the recorded withdrawals that took the balance from >= 0 to < 0
Crossings(h) ==
  Cardinality({i \in DOMAIN h : /\ h[i].trans_type = "Withdrawal"
                                /\ BalanceBefore(h, i) >= 0
                                /\ h[i].balance_after < 0})

\* (C2) On a CheckingAccount a successful withdrawal appends an Overdraft Fee
\* of 35 and deducts it exactly when it takes the balance from >= 0 to < 0;
\* otherwise (also while the balance is already negative) it deducts only the
\* amount and appends only the Withdrawal; no other step adds a fee; and the
\* number of recorded fees equals the number of recorded crossings.
C2_FeeStep(a) ==
  LET old == accounts[a]
      new == accounts'[a]
      amount == call'.arg
      w == Transaction("Withdrawal", amount, old.balance - amount, <<>>)
      fee == Transaction("Overdraft Fee", 35, old.balance - amount - 35,
                         <<"Overdraft fee charged">>)
  IN IF Called(a, "withdraw") /\ ret' = "True"
       THEN IF old.balance >= 0 /\ old.balance - amount < 0
              THEN /\ new.balance = old.balance - amount - 35
                   /\ new.transaction_history = old.transaction_history \o <<w, fee>>
              ELSE /\ new.balance = old.balance - amount
                   /\ new.transaction_history = old.transaction_history \o <<w>>
       ELSE FeeCount(new.transaction_history) = FeeCount(old.transaction_history)

C2_FeeExactlyOnCrossing ==
  [][\A a \in Slots :
       IsClass(a, "CheckingAccount") =>
         /\ C2_FeeStep(a)
         /\ FeeCount(accounts'[a].transaction_history)
              = Crossings(accounts'[a].transaction_history)]_vars

\* a successful withdrawal made while the balance was already negative, after
\* a fee was charged
C2_Witness ==
  \E a \in Slots :
    /\ IsClass(a, "CheckingAccount")
    /\ call = [op |-> "withdraw", acct |-> a, arg |-> 50]
    /\ ret = "True"
    /\ \E i \in DOMAIN History(a) :
         /\ History(a)[i].trans_type = "Overdraft Fee"
         /\ i < Len(History(a))
         /\ History(a)[Len(History(a))].trans_type = "Withdrawal"
         /\ BalanceBefore(History(a), Len(History(a))) < 0

\* ---- closing ----
\* (C3) Once an account is closed it stays closed; every later deposit and
\* withdraw, and every later apply_interest on an account that has the method,
\* returns False; and every later call of any kind, close_account included,
\* leaves balance, history and is_overdrawn unchanged.
C3_ClosedStep(a) ==
  LET old == accounts[a]
      new == accounts'[a]
  IN ~old.is_active =>
       /\ ~new.is_active
       /\ new.balance = old.balance
       /\ new.transaction_history = old.transaction_history
       /\ old.cls = "CheckingAccount" => new.is_overdrawn = old.is_overdrawn
       /\ (/\ call'.acct = a
           /\ \/ call'.op \in {"deposit", "withdraw"}
              \/ call'.op = "apply_interest" /\ HasApplyInterest(old))
            => ret' = "False"
       /\ call'.acct = a /\ call'.op = "close_account" => new = old

Withdrawn(old, amount) ==
  [old EXCEPT !.balance = old.balance - amount,
              !.transaction_history =
                 Append(old.transaction_history,
                        Transaction("Withdrawal", amount, old.balance - amount, <<>>))]

\* (C4) On an active SavingsAccount withdraw(amount) returns True exactly
\* when amount > 0 and balance - amount >= 100; then the balance drops by
\* amount and one Withdrawal is appended; on False nothing changes.
C4_SavingsStep(a) ==
  LET old == accounts[a]
      new == accounts'[a]
      amount == call'.arg
  IN (Called(a, "withdraw") /\ old.cls = "SavingsAccount" /\ old.is_active) =>
       /\ ret' \in {"True", "False"}
       /\ ret' = "True" <=> (amount > 0 /\ old.balance - amount >= 100)
       /\ ret' = "True" => new = Withdrawn(old, amount)
       /\ ret' = "False" => new = old

C5_CheckingStep(a) ==
  LET old == accounts[a]
      new == accounts'[a]
      amount == call'.arg
      n == Len(old.transaction_history)
      added == SubSeq(new.transaction_history, n + 1, Len(new.transaction_history))
  IN (Called(a, "withdraw") /\ old.cls = "CheckingAccount") =>
       /\ ret' \in {"True", "False"}
       /\ ret' = "True" <=> /\ old.is_active
                            /\ amount > 0
                            /\ amount <= old.balance + old.overdraft_limit
       /\ ret' = "False" => new = old
       /\ ret' = "True" =>
            /\ SubSeq(new.transaction_history, 1, n) = old.transaction_history
            /\ added[1] = Transaction("Withdrawal", amount, old.balance - amount, <<>>)
            /\ \/ Len(added) = 1
               \/ /\ Len(added) = 2
                  /\ added[2].trans_type = "Overdraft Fee"
                  /\ added[2].amount = 35
            /\ new.balance = old.balance + SignedSum(added)
            /\ added[Len(added)].balance_after = new.balance

C5_CheckingWithdraw == [][\A a \in Slots : C5_CheckingStep(a)]_vars

\* a positive withdrawal refused on an active, overdrawn account
C5_Witness ==
  \E a \in Slots :
    /\ IsClass(a, "CheckingAccount")
    /\ call.op = "withdraw" /\ call.acct = a /\ call.arg > 0
    /\ ret = "False"
    /\ accounts[a].is_active
    /\ accounts[a].balance < 0

\* (C6) On a base BankAccount withdraw(amount) returns True exactly when the
\* account is active, amount > 0 and amount <= balance; then the balance
\* drops by amount and one Withdrawal is appended; on False nothing changes.
C6_BaseStep(a) ==
  LET old == accounts[a]
      new == accounts'[a]
      amount == call'.arg
  IN (Called(a, "withdraw") /\ old.cls = "BankAccount") =>
       /\ ret' \in {"True", "False"}
       /\ ret' = "True" <=> (old.is_active /\ amount > 0 /\ amount <= old.balance)
       /\ ret' = "True" => new = Withdrawn(old, amount)
       /\ ret' = "False" => new = old

C6_BaseWithdraw == [][\A a \in Slots : C6_BaseStep(a)]_vars

\* the whole balance was withdrawn
C6_Witness ==
  \E a \in Slots :
    /\ IsClass(a, "BankAccount")
    /\ call.op = "withdraw" /\ call.acct = a /\ ret = "True"
    /\ accounts[a].balance = 0
    /\ accounts[a].initial_balance > 0

\* (C7) On every variant deposit(amount) returns False and changes neither
\* balance nor history when the account is closed or amount <= 0; otherwise
\* it returns True, adds amount to the balance and appends one Deposit whose
\* balance_after is the new balance.
C7_DepositStep(a) ==
  LET old == accounts[a]
      new == accounts'[a]
      amount == call'.arg
  IN Called(a, "deposit") =>
       IF ~old.is_active \/ amount <= 0
         THEN /\ ret' = "False"
              /\ new.balance = old.balance
              /\ new.transaction_history = old.transaction_history
         ELSE /\ ret' = "True"
              /\ new.balance = old.balance + amount
              /\ new.transaction_history =
                   Append(old.transaction_history,
                          Transaction("Deposit", amount, old.balance + amount, <<>>))

C7_Deposit == [][\A a \in Slots : C7_DepositStep(a)]_vars

\* an accepted deposit after earlier transactions
C7_Witness ==
  \E a \in Slots :
    /\ call.op = "deposit" /\ call.acct = a /\ ret = "True"
    /\ Len(History(a)) >= 3
    /\ History(a)[Len(History(a))].balance_after = accounts[a].balance
    /\ accounts[a].balance # call.arg

\* (C8) In every state of a CheckingAccount is_overdrawn is true exactly when
\* the balance is negative.
C8_OverdrawnIffNegative ==
  \A a \in Slots :
    accounts[a].cls = "CheckingAccount" =>
      (accounts[a].is_overdrawn <=> accounts[a].balance < 0)

\* a deposit brought an overdrawn account back to a balance >= 0
C8_Witness ==
  \E a \in Slots :
    /\ IsClass(a, "CheckingAccount")
    /\ call.op = "deposit" /\ call.acct = a /\ ret = "True"
    /\ ~accounts[a].is_overdrawn
    /\ accounts[a].balance >= 0
    /\ BalanceBefore(History(a), Len(History(a))) < 0

\* (C9) The balance of a BankAccount and of a SavingsAccount is never
\* negative; a balance turns negative only on a CheckingAccount and only by
\* an accepted withdraw.
C9_Step(a) ==
  LET old == accounts[a]
      new == accounts'[a]
  IN /\ new.cls # "CheckingAccount" => new.balance >= 0
     /\ (old.balance >= 0 /\ new.balance < 0) =>
          /\ old.cls = "CheckingAccount"
          /\ Called(a, "withdraw")
          /\ ret' = "True"

C9_NegativeOnlyByOverdraft ==
  [][/\ \A a \in Slots : C9_Step(a)
     /\ \A a \in 1..Len(accounts') : accounts'[a].balance >= 0 \/ a \in Slots]_vars

\* a withdrawal of more than the balance refused on an account that has
\* no overdraft
C9_Witness ==
  \E a \in Slots :
    /\ ~IsClass(a, "CheckingAccount")
    /\ call.op = "withdraw" /\ call.acct = a /\ ret = "False"
    /\ accounts[a].is_active
    /\ call.arg > accounts[a].balance
    /\ Len(History(a)) >= 2

\* ---- account numbers ----
\* (C10) One counter serves all variants: the first account gets 1000, the
\* accounts constructed so far hold consecutive numbers in construction
\* order and the counter is the next one; a construction, of whatever
\* variant, hands out the counter's current value and advances it by one; a
\* construction rejected for a negative initial balance leaves the counter
\* alone; and no step changes the number of an existing account.
C10_Numbering ==
  /\ account_counter = 1000 + Len(accounts)
  /\ \A a \in Slots : accounts[a].account_number = 1000 + (a - 1)
  /\ \A a, b \in Slots : a # b => accounts[a].account_number # accounts[b].account_number

C10_Step ==
  /\ \A a \in Slots : accounts'[a].account_number = accounts[a].account_number
  /\ Len(accounts') > Len(accounts) =>
       /\ Len(accounts') = Len(accounts) + 1
       /\ accounts'[Len(accounts')].account_number = account_counter
       /\ account_counter' = account_counter + 1
  /\ ret' = "ValueError" =>
       /\ account_counter' = account_counter
       /\ accounts' = accounts

C10_AccountNumbers == [][C10_Step /\ C10_Numbering']_vars

\* three accounts of three different variants, built around a rejected
\* construction
C10_Witness ==
  /\ Len(accounts) >= 3
  /\ \A cls \in Classes : \E a \in Slots : accounts[a].cls = cls
  /\ call.op = "construct"
  /\ ret = "ValueError"

\* ---- construction ----
\* (C11) A constructor call of any variant with a negative initial balance
\* raises and yields no account; with an initial balance > 0 the new account
\* is active, its balance is the initial balance and its history is exactly
\* one Deposit whose amount and balance_after are the initial balance; with an
\* initial balance of 0 the history is empty.
C11_ConstructStep ==
  LET initial_balance == call'.arg
      n == Len(accounts')
      new == accounts'[n]
  IN call'.op = "construct" =>
       IF initial_balance < 0
         THEN /\ ret' = "ValueError"
              /\ accounts' = accounts
         ELSE /\ ret' = "None"
              /\ n = Len(accounts) + 1
              /\ SubSeq(accounts', 1, n - 1) = accounts
              /\ new.is_active
              /\ new.balance = initial_balance
              /\ IF initial_balance > 0
                   THEN /\ Len(new.transaction_history) = 1
                        /\ new.transaction_history[1].trans_type = "Deposit"
                        /\ new.transaction_history[1].amount = initial_balance
                        /\ new.transaction_history[1].balance_after = initial_balance
                   ELSE new.transaction_history = <<>>

C11_Construction == [][C11_ConstructStep]_vars

\* a CheckingAccount just opened with 100
C11_Witness ==
  /\ call = [op |-> "construct", acct |-> 1, arg |-> 100]
  /\ ret = "None"
  /\ IsClass(1, "CheckingAccount")
  /\ accounts[1].balance = 100
  /\ Len(History(1)) = 1

\* ---- interest ----
\* (C12) On a SavingsAccount apply_interest computes interest = balance *
\* interest_rate; when the account is active and interest > 0 it returns
\* True, adds exactly interest to the balance and appends exactly one
\* Interest transaction of that amount; when the account is closed or
\* interest <= 0 it returns False and changes neither balance nor history.
C12_InterestStep(a) ==
  LET old == accounts[a]
      new == accounts'[a]
      product == old.balance * old.interest_rate
  IN (Called(a, "apply_interest") /\ old.cls = "SavingsAccount") =>
       IF old.is_active /\ product > 0
         THEN /\ ret' = "True"
              /\ new.balance * RateDen = old.balance * RateDen + product
              /\ Len(new.transaction_history) = Len(old.transaction_history) + 1
              /\ SubSeq(new.transaction_history, 1, Len(old.transaction_history))
                   = old.transaction_history
              /\ LET t == new.transaction_history[Len(new.transaction_history)]
                 IN /\ t.trans_type = "Interest"
                    /\ t.amount * RateDen = product
                    /\ t.balance_after = new.balance
         ELSE /\ ret' = "False"
              /\ new = old

C12_ApplyInterest == [][\A a \in Slots : C12_InterestStep(a)]_vars

\* interest applied at a rate of 50%, and a later call refused at rate 0
C12_Witness ==
  \E a \in Slots :
    /\ IsClass(a, "SavingsAccount")
    /\ call.op = "apply_interest" /\ call.acct = a /\ ret = "False"
    /\ accounts[a].is_active
    /\ accounts[a].interest_rate = 0
    /\ accounts[a].balance > 0
    /\ \E i \in DOMAIN History(a) :
         /\ History(a)[i].trans_type = "Interest"
         /\ History(a)[i].amount * 2 = BalanceBefore(History(a), i)

\* ---- interest rate ----
RateInRange(r) == 0 <= r /\ r <= RateDen

\* (C13) The interest_rate of every SavingsAccount lies in [0,1] in every
\* state, whatever rate the constructor was given and whatever is passed to
\* set_interest_rate; set_interest_rate(new_rate) replaces the rate only when
\* 0 <= new_rate <= 1, otherwise leaves it, and never changes balance or
\* history.
C13_SetterStep(a) ==
  LET old == accounts[a]
      new == accounts'[a]
      new_rate == call'.arg
  IN Called(a, "set_interest_rate") =>
       /\ new.interest_rate = IF RateInRange(new_rate) THEN new_rate
                              ELSE old.interest_rate
       /\ new.balance = old.balance
       /\ new.transaction_history = old.transaction_history

C13_RateAlwaysInRange ==
  [][/\ \A a \in 1..Len(accounts') :
          accounts'[a].cls = "SavingsAccount" => RateInRange(accounts'[a].interest_rate)
     /\ \A a \in Slots : C13_SetterStep(a)]_vars

\* ---- get_transaction_history ----
\* the limit argument: <<>> is None (the default), <<n>> is the integer n
HistoryLimits == {<<>>, <<-1>>, <<0>>, <<1>>, <<2>>, <<MaxHistory + 1>>}

\* Python truth value of the limit
Truthy(limit) == limit # <<>> /\ limit[1] # 0

\* h[::-1]
Reversed(h) == [i \in 1..Len(h) |-> h[Len(h) + 1 - i]]

\* h[:k]
SliceTo(h, k) ==
  IF k >= 0
    THEN SubSeq(h, 1, IF k < Len(h) THEN k ELSE Len(h))
    ELSE SubSeq(h, 1, IF Len(h) + k > 0 THEN Len(h) + k ELSE 0)

\* mutant: the limit is tested against None, so 0 truncates to nothing
get_transaction_history_NoneTest(self, limit) ==
  LET history == Reversed(self.transaction_history)
  IN IF limit # <<>> THEN SliceTo(history, limit[1]) ELSE history

get_transaction_history(self, limit) ==
  LET history == Reversed(self.transaction_history)
  IN IF Truthy(limit) THEN SliceTo(history, limit[1]) ELSE history

GetTransactionHistory ==
  \E a \in Slots, limit \in HistoryLimits :
    MethodCall(a, "get_transaction_history", limit,
               [self |-> accounts[a], ret |-> get_transaction_history(accounts[a], limit)])

NextHistory ==
  \/ Construct
  \/ Deposit
  \/ Withdraw
  \/ GetTransactionHistory

SpecHistory == Init /\ [][NextHistory]_vars

\* (C14) For every log and every limit >= 0, get_transaction_history returns
\* the log most recent first: all of it when the limit is unspecified or 0,
\* its first min(limit, length) entries when limit > 0; and the call changes
\* neither the log nor the balance.
C14_GetStep(a) ==
  LET h == accounts[a].transaction_history
      limit == call'.arg
      n == IF limit = <<>> \/ limit[1] = 0 THEN Len(h)
           ELSE IF limit[1] < Len(h) THEN limit[1] ELSE Len(h)
  IN (Called(a, "get_transaction_history") /\ (limit = <<>> \/ limit[1] >= 0)) =>
       /\ Len(ret') = n
       /\ \A i \in 1..n : ret'[i] = h[Len(h) + 1 - i]
       /\ accounts' = accounts

C14_GetTransactionHistory == [][\A a \in Slots : C14_GetStep(a)]_vars

\* the two most recent of at least three different transactions
C14_Witness ==
  \E a \in Slots :
    /\ call.op = "get_transaction_history" /\ call.acct = a /\ call.arg = <<2>>
    /\ Len(History(a)) >= 3
    /\ Len(ret) = 2
    /\ ret[1] = History(a)[Len(History(a))]
    /\ ret[1] # ret[2]

\* ---- the savings part of the demo ----
\* the amounts the demo uses on the savings account
DemoAmounts == {500, 200, 1200}

DemoApply(op, arg, result) ==
  /\ Within(result.self, DemoMaxBalance, DemoHistory)
  /\ MethodCall(1, op, arg, result)

\* savings = SavingsAccount("Alice Johnson", 1000.0, interest_rate=0.03)
DemoOpen ==
  /\ accounts = <<>>
  /\ ConstructWith("SavingsAccount", "Alice Johnson", 1000, 3)

DemoDeposit ==
  \E amount \in DemoAmounts :
    /\ accounts # <<>>
    /\ DemoApply("deposit", amount, deposit(accounts[1], amount))

DemoWithdraw ==
  \E amount \in DemoAmounts :
    /\ accounts # <<>>
    /\ DemoApply("withdraw", amount, withdraw(accounts[1], amount))

DemoApplyInterest ==
  /\ accounts # <<>>
  /\ InterestExact(accounts[1])
  /\ DemoApply("apply_interest", 0, apply_interest(accounts[1]))

NextDemo ==
  \/ DemoOpen
  \/ DemoDeposit
  \/ DemoWithdraw
  \/ DemoApplyInterest

SpecDemo == Init /\ [][NextDemo]_vars

\* the account after deposit(500), withdraw(200), apply_interest()
DemoReached ==
  /\ Len(accounts) = 1
  /\ accounts[1].balance = 1339
  /\ [i \in DOMAIN History(1) |->
        <<History(1)[i].trans_type, History(1)[i].amount, History(1)[i].balance_after>>]
       = << <<"Deposit", 1000, 1000>>, <<"Deposit", 500, 1500>>,
            <<"Withdrawal", 200, 1300>>, <<"Interest", 39, 1339>> >>

\* (C15) In the demo, on the SavingsAccount opened with 1000 at rate 0.03,
\* after deposit(500), withdraw(200) and apply_interest() the balance is 1339
\* and the following withdraw(1200) is rejected and leaves the balance at 1339.
C15_DemoWithdrawRejected ==
  [][(DemoReached /\ call'.op = "withdraw" /\ call'.arg = 1200) =>
       /\ ret' = "False"
       /\ accounts'[1].balance = 1339]_vars

\* ---- balance_after ----
\* (C16) Every transaction carries the balance right after its own mutation:
\* the most recent transaction's balance_after is the current balance, each
\* transaction's balance_after is the one before it plus (Deposit, Interest)
\* or minus (Withdrawal, Overdraft Fee) its amount, and an Overdraft Fee
\* record follows its Withdrawal record, which carries the balance before
\* the fee, with a balance_after 35 lower.
C16_Stamped(self) ==
  LET h == self.transaction_history
  IN /\ h # <<>> => h[Len(h)].balance_after = self.balance
     /\ \A i \in DOMAIN h :
          /\ h[i].balance_after = BalanceBefore(h, i) + SignedAmount(h[i])
          /\ h[i].trans_type = "Overdraft Fee" =>
               /\ i > 1
               /\ h[i - 1].trans_type = "Withdrawal"
               /\ h[i - 1].balance_after < 0
               /\ h[i].balance_after = h[i - 1].balance_after - 35

C16_BalanceAfter == \A a \in Slots : C16_Stamped(accounts[a])

\* a history holding a withdrawal into overdraft, its fee and a later
\* transaction
C16_Witness ==
  \E a \in Slots :
    \E i \in DOMAIN History(a) :
      /\ History(a)[i].trans_type = "Overdraft Fee"
      /\ i < Len(History(a))
      /\ i > 2

\* ---- two constructor calls running concurrently ----
\* Each thread runs one constructor call; a step is the check of lines
\* 46-47, the read of the counter on line 49, the increment on line 50, or
\* the rest of the constructor (lines 52-58 and the subclass attributes).
Pc(t) == threads[t].pc

\* lines 46-47
Enter(t) ==
  \E cls \in Classes, owner \in Owners, initial_balance \in InitialBalances :
    /\ Pc(t) = "idle"
    /\ threads' = [threads EXCEPT ![t] =
         IF initial_balance < 0
           THEN [pc |-> "raised"]
           ELSE [pc |-> "line49", cls |-> cls, owner |-> owner,
                 initial_balance |-> initial_balance]]
    /\ UNCHANGED <<account_counter, accounts, call, ret>>

\* line 49: self.__account_number = BankAccount.account_counter
ReadCounter(t) ==
  /\ Pc(t) = "line49"
  /\ threads' = [threads EXCEPT ![t] =
       [pc |-> "line50", cls |-> @.cls, owner |-> @.owner,
        initial_balance |-> @.initial_balance, account_number |-> account_counter]]
  /\ UNCHANGED <<account_counter, accounts, call, ret>>

\* line 50: BankAccount.account_counter += 1
IncrementCounter(t) ==
  /\ Pc(t) = "line50"
  /\ account_counter' = account_counter + 1
  /\ threads' = [threads EXCEPT ![t].pc = "line52"]
  /\ UNCHANGED <<accounts, call, ret>>

\* lines 52-58 and the subclass constructor: the object is complete
Finish(t) ==
  /\ Pc(t) = "line52"
  /\ accounts' = Append(accounts,
       [NewAccount(threads[t].cls, threads[t].owner, threads[t].initial_balance,
                   DefaultExtra(threads[t].cls))
          EXCEPT !.account_number = threads[t].account_number])
  /\ threads' = [threads EXCEPT ![t].pc = "done"]
  /\ UNCHANGED <<account_counter, call, ret>>

NextConcurrent ==
  \E t \in Threads :
    \/ Enter(t)
    \/ ReadCounter(t)
    \/ IncrementCounter(t)
    \/ Finish(t)

SpecConcurrent == Init /\ [][NextConcurrent]_vars

\* (C17) When two constructor calls run concurrently, interleaved at the
\* read of the counter (line 49) and its increment (line 50), the two
\* accounts never receive the same account number, and the counter advances
\* by exactly one per construction.
C17_ConcurrentNumbersDistinct ==
  /\ \A a, b \in Slots :
       a # b => accounts[a].account_number # accounts[b].account_number
  /\ account_counter =
       1000 + Cardinality({t \in Threads : Pc(t) \in {"line52", "done"}})

\* ---- apply_interest on the variants that do not define it ----
\* (C18) As stated: apply_interest called on a BankAccount or on a
\* CheckingAccount, active or closed, returns failure without raising and
\* leaves balance and history unchanged.
C18_Step(a, outcome) ==
  LET old == accounts[a]
      new == accounts'[a]
  IN (Called(a, "apply_interest") /\ old.cls \in {"BankAccount", "CheckingAccount"}) =>
       /\ ret' = outcome
       /\ new.balance = old.balance
       /\ new.transaction_history = old.transaction_history

C19_Step(a) ==
  LET old == accounts[a]
      new == accounts'[a]
      limit == old.overdraft_limit
      h == new.transaction_history
  IN (old.cls = "CheckingAccount" /\ limit >= 0) =>
       /\ new.balance >= 0 - (limit + 35)
       /\ (old.balance >= 0 - limit /\ new.balance < 0 - limit) =>
            /\ Called(a, "withdraw") /\ ret' = "True"
            /\ Len(h) = Len(old.transaction_history) + 2
            /\ h[Len(h) - 1].trans_type = "Withdrawal"
            /\ h[Len(h) - 1].balance_after >= 0 - limit
            /\ h[Len(h)].trans_type = "Overdraft Fee"
            /\ new.balance = h[Len(h) - 1].balance_after - 35
       /\ (old.balance < 0 - limit /\ Called(a, "withdraw")) =>
            /\ ret' = "False"
            /\ new = old

C19_OverdraftFloor ==
  [][/\ \A a \in Slots : C19_Step(a)
     /\ \A a \in 1..Len(accounts') :
          (accounts'[a].cls = "CheckingAccount" /\ accounts'[a].overdraft_limit >= 0)
            => accounts'[a].balance >= 0 - (accounts'[a].overdraft_limit + 35)]_vars

\* a withdrawal refused while the fee holds the balance below the limit
C19_Witness ==
  \E a \in Slots :
    /\ IsClass(a, "CheckingAccount")
    /\ accounts[a].overdraft_limit >= 0
    /\ accounts[a].balance < 0 - accounts[a].overdraft_limit
    /\ accounts[a].is_active
    /\ call.op = "withdraw" /\ call.acct = a /\ call.arg > 0
    /\ ret = "False"

\* ---- the minimum balance of a SavingsAccount ----
\* (C20) On a SavingsAccount, once the balance is >= 100 it stays >= 100
\* under every operation (whatever the interest rate), and while the balance
\* is below 100 every withdrawal is rejected and changes nothing.
C20_Step(a) ==
  LET old == accounts[a]
      new == accounts'[a]
  IN old.cls = "SavingsAccount" =>
       /\ old.balance >= 100 => new.balance >= 100
       /\ (old.balance < 100 /\ Called(a, "withdraw")) =>
            /\ ret' = "False"
            /\ new = old
       /\ new.balance < old.balance => (Called(a, "withdraw") /\ ret' = "True")

C20_MinimumBalanceKept == [][\A a \in Slots : C20_Step(a)]_vars

\* a withdrawal refused on an active account whose deposits have not yet
\* reached the minimum
C20_Witness ==
  \E a \in Slots :
    /\ IsClass(a, "SavingsAccount")
    /\ accounts[a].is_active
    /\ accounts[a].interest_rate >= 0
    /\ accounts[a].balance > 0 /\ accounts[a].balance < 100
    /\ call.op = "withdraw" /\ call.acct = a /\ call.arg > 0
    /\ call.arg <= accounts[a].balance
    /\ ret = "False"

====
